---- MODULE Spec2Model ----
(***************************************************************************)
(* Model of the LMS backend's code grader (utils/codeRunner: runInSandbox  *)
(* and gradeCode).  A grading call runs synchronously on the single Node   *)
(* thread, so calls are modelled one after another; what outlives a call   *)
(* is the host realm's JSON and Math objects, which every sandbox context  *)
(* is handed by reference.                                                 *)
(*                                                                         *)
(* JavaScript values are written as strings ("1", "null", "undefined",     *)
(* ...).  Submitted code is described by what it does when compiled, when  *)
(* its top level runs and when its entry point is applied to an argument   *)
(* list.  Code in the context can write to the objects it is handed and    *)
(* can walk their constructor chain; reaching a host capability is         *)
(* recorded in host.leaked, and what host-realm code could do after that   *)
(* is not modelled.                                                        *)
(***************************************************************************)
EXTENDS Integers, Sequences, FiniteSets, TLC

VARIABLES
    pc,          \* position of the grading call on the Node thread
    code,        \* gradeCode argument: the submitted program
    tests,       \* gradeCode argument: the list of test cases
    idx,         \* 1-based index of the test case the for-of loop is at
    results,     \* gradeCode local `results`
    passed,      \* gradeCode local `passed`
    exc,         \* the value caught by the catch clause (line 28)
    report,      \* the object returned by gradeCode (valid when pc = "returned")
    host,        \* host realm objects shared with every context (JSON, Math) and host capability leak
    contexts,    \* number of vm.createContext calls made by the current gradeCode call
    invocations, \* number of fn.apply calls made by the current gradeCode call
    observed,    \* reports returned so far for the watched calls: set of [code, tests, report]
    vmBroken,    \* whether the vm module fails to build a context (a fault of the environment)
    rpc,         \* position of the POST /submissions request being handled
    req,         \* the request: body fields and the assignment it names
    submission,  \* the in-memory Submission document of the request
    stored,      \* the Submission document as persisted
    result,      \* the route's local result: whether gradeCode returned, and its percentage
    assignment,  \* the Assignment document the request loaded: submissions, totalSubmissions
    res,         \* HTTP status answered (0: none yet)
    handlers,       \* concurrent POST /submissions handlers: position and locals of each
    dbSubmissions,  \* the submissions collection: (student, submissionNumber) of each document
    dbAssignment,   \* the Assignment document in the database
    scans,          \* executions of runDueSoonScan: position and student index of each
    notifications,  \* 'Assignment due soon' notifications in the database, per student
    noticedLate,    \* students notified while they already had a submission
    limiter,        \* the limiter made by sensitiveOperationLimit: maxAttempts, windowMs
    clock,          \* Date.now()
    attempts,       \* the limiter's Map: key -> count and resetTime (has: key present)
    served,         \* per key, what the limiter answered since the current window began
    callers,        \* enroll / unenroll requests of one student for one course: position, locals
    course,         \* the Course document: entries of the student in enrolledStudents, __v
    userCourses     \* entries of the course in the student's enrolledCourses

routeVars == <<rpc, req, submission, stored, result, assignment, res>>

submitVars == <<handlers, dbSubmissions, dbAssignment>>

scanVars == <<scans, notifications, noticedLate>>

limitVars == <<limiter, clock, attempts, served>>

enrollVars == <<callers, course, userCourses>>

serviceVars == <<submitVars, scanVars, limitVars, enrollVars>>

vars == <<pc, code, tests, idx, results, passed, exc, report, host, contexts, invocations, observed,
          vmBroken, rpc, req, submission, stored, result, assignment, res,
          handlers, dbSubmissions, dbAssignment, scans, notifications, noticedLate,
          limiter, clock, attempts, served, callers, course, userCourses>>

----------------------------------------------------------------------------
(* Bounds of the model *)

MaxTests == 2

ABSENT == "absent"

(* Argument lists the entry point can be applied to, and the args field of a test *)
ArgLists == {"[]", "[1]"}
TestArgs == {ABSENT, "[1]"}
ExpectedValues == {"1", "2"}

TestCases == [args : TestArgs, expected : ExpectedValues]

RECURSIVE SeqsUpTo(_, _)
SeqsUpTo(S, n) ==
    IF n = 0 THEN {<<>>}
    ELSE LET shorter == SeqsUpTo(S, n - 1)
         IN  shorter \cup {Append(s, x) : s \in {t \in shorter : Len(t) = n - 1}, x \in S}

TestLists == SeqsUpTo(TestCases, MaxTests)

----------------------------------------------------------------------------
(* Submitted programs *)

Ret(v)   == [kind |-> "return", val |-> v]
Throw(v) == [kind |-> "throw",  val |-> v]
Loop     == [kind |-> "loop",   val |-> ABSENT]

(* What applying the entry point to one argument list does: return a value,  *)
(* throw a value (an Error object, null, undefined, a string), or never halt *)
Outcomes == {Ret("1"), Ret("2"), Ret("circular"),
             Throw("Error"), Throw("null"), Throw("undefined"), Throw("string"),
             Loop}

Bodies == [ArgLists -> Outcomes]

(* Top-level statements that write to, or walk out of, the objects in the context *)
Effects == {"JSON.stringify=", "Math.round=", "Math.round=throw", "constructor"}

Program(parses, top, effects, entryType, body) ==
    [parses |-> parses, top |-> top, effects |-> effects,
     entryType |-> entryType, body |-> body]

ConstBody(o) == [a \in ArgLists |-> o]

Programs ==
    {Program(FALSE, "halts", {}, "undefined", ConstBody(Ret("1")))}        \* does not compile
    \cup {Program(TRUE, "loops", {}, "undefined", ConstBody(Ret("1")))}    \* top level never ends
    \cup {Program(TRUE, "loops", {e}, "undefined", ConstBody(Ret("1"))) : e \in Effects}
    \cup {Program(TRUE, "halts", {}, t, ConstBody(Ret("1"))) : t \in {"undefined", "number"}}
    \cup {Program(TRUE, "halts", {e}, "undefined", ConstBody(Ret("1"))) : e \in Effects}
    \cup {Program(TRUE, "halts", {}, "function", b) : b \in Bodies}
    \cup {Program(TRUE, "halts", {e}, "function", ConstBody(Ret("2"))) : e \in Effects}

----------------------------------------------------------------------------
(* The host realm *)

(* Concurrent POST /submissions requests for one assignment *)

NumHandlers == 3
Handlers == 1..NumHandlers
Students == {"s1", "s2"}

(* A handler before its request arrives. loaded: totalSubmissions of the   *)
(* Assignment document loaded at line 71; number: submissionNumber of line *)
(* 122; answer: the HTTP status sent (0: none yet)                         *)
IdleHandler ==
    [at |-> "idle", student |-> "s1", loaded |-> 0, number |-> 0, answer |-> 0]

(* The smallest maxSubmissions the schema admits (min: 1) *)
LeastMaxSubmissions == 1

(* An Assignment document with no submissions yet (Assignment.js 82-86, *)
(* 101, 158-161); maxSubmissions is at least 1                          *)
NewAssignment(m) ==
    [submissions |-> <<>>, totalSubmissions |-> 0, maxSubmissions |-> m]

(* runDueSoonScan: the executions started by the scheduler (one at startup, *)
(* one per interval tick) for one assignment due within the window         *)
NumScans == 2
Scans == 1..NumScans

(* course.enrolledStudents in the order the scan walks it *)
Enrolled == <<"s1", "s2">>

IdleScan == [at |-> "idle", i |-> 1]

(* sensitiveOperationLimit (middleware/auth.js 198-228) *)

MaxClock == 5

(* `${req.user._id}-${req.ip}` *)
Keys == {"u1-ip1", "u1-ip2"}

(* sensitiveOperationLimit has not been called yet *)
NoLimiter == [made |-> FALSE, maxAttempts |-> 1, windowMs |-> 1]

(* attempts.has(key) is false *)
NoAttempts == [has |-> FALSE, count |-> 0, resetTime |-> 0]

(* Nothing answered yet for a key. windows: how many windows have begun;    *)
(* start: Date.now() of the request that began the current one; passed: the *)
(* calls of next() in it; last: the latest answer; fresh: whether the       *)
(* latest request began the window                                          *)
NothingServed ==
    [windows |-> 0, start |-> 0, passed |-> 0, last |-> "none", fresh |-> FALSE]

(* POST and DELETE /courses/:id/enroll by one student for one course *)

NumCallers == 3
Callers == 1..NumCallers

(* A request not yet arrived. kind: enroll or unenroll; entries and v: the *)
(* Course document as findById returned it; answer: the HTTP status sent   *)
IdleCaller == [at |-> "idle", kind |-> "none", entries |-> 0, v |-> 0, answer |-> 0]

PristineHost == [stringify |-> "native", round |-> "native", leaked |-> FALSE]

(* Calls whose reports are recorded to compare repeated calls *)
WatchedCalls ==
    {[code |-> Program(TRUE, "halts", {}, "function", ConstBody(Ret("2"))),
      tests |-> <<[args |-> ABSENT, expected |-> "1"]>>]}

NoReport == [passed |-> 0, total |-> 0, percentage |-> 0, results |-> <<>>]
NoExc == [type |-> ABSENT, message |-> ABSENT]
NoCode == Program(FALSE, "halts", {}, "undefined", ConstBody(Ret("1")))

(* POST /submissions: request bodies, assignments and Submission documents *)

SrcReturnsOne == "function f(){ return 1 }"
SrcThrowsNull == "function f(){ throw null }"
SourceTexts == {SrcReturnsOne, SrcThrowsNull}

(* req.body.textSubmission: missing, empty or a source text *)
TextSubmissions == {ABSENT, ""} \cup SourceTexts

(* req.body.codeSubmission after JSON.parse (line 132): missing, or an object *)
(* holding the source under the key code or under the key source             *)
NoPayload == [language |-> ABSENT]
Payloads ==
    {NoPayload}
    \cup {[language |-> "javascript", code |-> t] : t \in SourceTexts}
    \cup {[language |-> "javascript", source |-> t] : t \in SourceTexts}

(* assignment.instructions after the JSON.parse of line 163 ({} when it is *)
(* not JSON): whether entry is truthy, whether tests is an array           *)
Metas ==
    {[entry |-> FALSE, isArray |-> FALSE, tests |-> <<>>]}
    \cup {[entry |-> e, isArray |-> TRUE, tests |-> ts] : e \in BOOLEAN, ts \in TestLists}
    \cup {[entry |-> TRUE, isArray |-> FALSE, tests |-> <<>>]}

AssignmentTypes == {"code_submission", "essay"}

Requests ==
    [textSubmission : TextSubmissions, codeSubmission : Payloads,
     type : AssignmentTypes, meta : Metas]

NoRequest ==
    [textSubmission |-> ABSENT, codeSubmission |-> NoPayload, type |-> "essay",
     meta |-> [entry |-> FALSE, isArray |-> FALSE, tests |-> <<>>]]

(* The paths of submissionSchema.codeSubmission that hold text (Submission.js 49-62) *)
CodeSubmissionPaths == {"language", "code", "output"}

(* Mongoose keeps the keys that are paths of the schema and drops the others *)
CastCodeSubmission(payload) ==
    [k \in DOMAIN payload \cap CodeSubmissionPaths |-> payload[k]]

(* obj.key, undefined when the object has no such key *)
Read(obj, key) == IF key \in DOMAIN obj THEN obj[key] ELSE ABSENT

(* A Submission document: the paths the grading route writes and reads. *)
(* grade is a Number path with no default; gradeSet tells whether it is set *)
NewSubmission(r) ==
    [textSubmission |-> r.textSubmission,
     codeSubmission |-> CastCodeSubmission(r.codeSubmission),
     status |-> "submitted", gradedAt |-> ABSENT,
     gradeSet |-> FALSE, grade |-> 0, maxPoints |-> 100, exists |-> TRUE]

NoSubmission == [NewSubmission(NoRequest) EXCEPT !.exists = FALSE]

NoResult == [returned |-> FALSE, percentage |-> 0, failed |-> FALSE]

(* The Assignment document as findById returns it (line 71) when prior *)
(* submissions were appended before: their ids and the counter         *)
MaxPrior == 1
LoadedAssignment(prior) ==
    [submissions |-> [i \in 1..prior |-> "earlier"], totalSubmissions |-> prior]
NoAssignment == LoadedAssignment(0)

Init ==
    /\ pc = "idle"
    /\ code = NoCode
    /\ tests = <<>>
    /\ idx = 1
    /\ results = <<>>
    /\ passed = 0
    /\ exc = NoExc
    /\ report = NoReport
    /\ host = PristineHost
    /\ contexts = 0
    /\ invocations = 0
    /\ observed = {}
    /\ vmBroken \in BOOLEAN
    /\ rpc = "none"
    /\ req = NoRequest
    /\ submission = NoSubmission
    /\ stored = NoSubmission
    /\ result = NoResult
    /\ assignment = NoAssignment
    /\ res = 0
    /\ handlers = [h \in Handlers |-> IdleHandler]
    /\ dbSubmissions = {}
    /\ dbAssignment = NewAssignment(LeastMaxSubmissions)
    /\ scans = [k \in Scans |-> IdleScan]
    /\ notifications = [st \in Students |-> 0]
    /\ noticedLate = {}
    /\ limiter = NoLimiter
    /\ clock = 0
    /\ attempts = [k \in Keys |-> NoAttempts]
    /\ served = [k \in Keys |-> NothingServed]
    /\ callers = [c \in Callers |-> IdleCaller]
    /\ course = [entries |-> 0, v |-> 0]
    /\ userCourses = 0

----------------------------------------------------------------------------
(* runInSandbox, lines 4-10: the context and what can be reached from it *)

(* The keys of the context object *)
context == {"console", "Math", "Date", "JSON"}

(* Context entries that are the host realm's own objects, passed by reference *)
SharedWithHost == {"Math", "Date", "JSON"}

(* Property reads and calls available to code holding an object.  console is *)
(* an object literal and console.log an arrow function, both created by host *)
(* code, so their constructor properties are the host realm's Object and     *)
(* Function; the host's Function compiles source in the host realm.          *)
PropertyEdges ==
    {<<"console", "console.log">>,
     <<"console", "host.Object">>,
     <<"console.log", "host.Function">>,
     <<"Math", "host.Object">>,
     <<"JSON", "host.Object">>,
     <<"Date", "host.Function">>,
     <<"host.Object", "host.Function">>,
     <<"host.Function", "host.globalThis">>,
     <<"host.globalThis", "process">>,
     <<"process", "require">>,
     <<"require", "fs">>,
     <<"require", "net">>}

HostCapabilities == {"process", "require", "fs", "net"}

RECURSIVE Reachable(_)
Reachable(S) ==
    LET next == S \cup {e[2] : e \in {d \in PropertyEdges : d[1] \in S}}
    IN  IF next = S THEN S ELSE Reachable(next)

ContextLeaks == Reachable(context) \cap HostCapabilities # {}

(* The host realm after the program's top-level statements have run in the context *)
ApplyEffects(h, effects) ==
    [stringify |-> IF "JSON.stringify=" \in effects /\ "JSON" \in SharedWithHost
                   THEN "replaced" ELSE h.stringify,
     round     |-> IF "Math" \notin SharedWithHost THEN h.round
                   ELSE IF "Math.round=throw" \in effects THEN "throws"
                   ELSE IF "Math.round=" \in effects THEN "replaced"
                   ELSE h.round,
     leaked    |-> h.leaked \/ ("constructor" \in effects /\ ContextLeaks)]

----------------------------------------------------------------------------
(* Host functions gradeCode calls *)

(* JSON.stringify(v) as the host evaluates it at line 25.  The native one     *)
(* throws a TypeError on a circular structure, yields the value undefined for *)
(* undefined and "null" for null and NaN; a replaced one returns one string.  *)
Stringify(h, v) ==
    IF h.stringify = "replaced" THEN [threw |-> FALSE, str |-> "\"x\""]
    ELSE CASE v = "circular"  -> [threw |-> TRUE,  str |-> ABSENT]
           [] v = "undefined" -> [threw |-> FALSE, str |-> "undefined"]
           [] v = "NaN"       -> [threw |-> FALSE, str |-> "null"]
           [] OTHER           -> [threw |-> FALSE, str |-> v]

(* Math.round((p / n) * 100) as the host evaluates it at line 32, n > 0.     *)
(* The native one rounds halves up; the value is computed here in integers,  *)
(* which agrees with the double-precision (p / n) * 100 for every n < 40     *)
(* (the first difference is p = 23, n = 40: 57.49999999999999 rounds to 57). *)
(* A replaced one returns what its author chose.                             *)
MathRound(h, p, n) ==
    IF h.round = "replaced" THEN 1000
    ELSE (200 * p + n) \div (2 * n)

(* e.message for a caught value e that is neither null nor undefined *)
Message(e) == IF e.type = "string" THEN "undefined" ELSE e.message

Err(type, message) == [type |-> type, message |-> message]

SyntaxErr   == Err("SyntaxError", "Unexpected token")
TimeoutErr  == Err("Error", "Script execution timed out after 1000ms")
NotFoundErr == Err("Error", "Entry function not found")
CircularErr == Err("TypeError", "Converting circular structure to JSON")
SandboxUnavailableErr == Err("Error", "vm context could not be created")
MessageReadErr   == Err("TypeError", "Cannot read properties of null or undefined")
ReplacedRoundErr == Err("Error", "thrown by the function assigned to Math.round")
ThrownValue(v) ==
    IF v = "Error" THEN Err("Error", "boom") ELSE Err(v, ABSENT)

OutputResult(ok, out, expected) ==
    [ok |-> ok, output |-> out, expected |-> expected, error |-> ABSENT]
ErrorResult(message) ==
    [ok |-> FALSE, output |-> ABSENT, expected |-> ABSENT, error |-> message]

----------------------------------------------------------------------------
(* gradeCode *)

(* Lines 19-22: gradeCode is entered with code c and tests ts *)
GradeCodeEnter(c, ts) ==
    /\ pc = "idle"
    /\ code' = c
    /\ tests' = ts
    /\ pc' = IF Len(ts) = 0 THEN "aggregate" ELSE "sandbox"
    /\ idx' = 1
    /\ results' = <<>>
    /\ passed' = 0
    /\ contexts' = 0
    /\ invocations' = 0
    /\ UNCHANGED <<exc, report, host, observed, vmBroken>>

(* gradeCode({code, entry, tests}) called with any arguments *)
GradeCodeCall ==
    /\ pc = "idle"
    /\ \E c \in Programs, ts \in TestLists : GradeCodeEnter(c, ts)
    /\ UNCHANGED routeVars
    /\ UNCHANGED serviceVars

(* What lines 12-14 of runInSandbox raise, if anything *)
LoadError(c) ==
    IF ~c.parses THEN SyntaxErr
    ELSE IF c.top = "loops" THEN TimeoutErr
    ELSE IF c.entryType # "function" THEN NotFoundErr
    ELSE NoExc

(* Line 10: vm.createContext builds a new context at every call of runInSandbox *)
ConstructedOnce(n) == IF n = 0 THEN 1 ELSE n
Constructed(n) == n + 1

(* runInSandbox lines 4-14 for test idx: build the context, compile the     *)
(* wrapped source, run its top level under the 1000 ms limit, take entry    *)
LoadInSandbox ==
    /\ pc = "sandbox"
    /\ IF vmBroken
       THEN /\ exc' = SandboxUnavailableErr
            /\ pc' = "catch"
            /\ UNCHANGED <<contexts, host>>
       ELSE /\ contexts' = Constructed(contexts)
            /\ host' = IF code.parses THEN ApplyEffects(host, code.effects) ELSE host
            /\ IF LoadError(code) # NoExc
               THEN /\ exc' = LoadError(code)
                    /\ pc' = "catch"
               ELSE /\ exc' = NoExc
                    /\ pc' = "apply"
    /\ UNCHANGED <<code, tests, idx, results, passed, report, invocations, observed, vmBroken>>
    /\ UNCHANGED routeVars
    /\ UNCHANGED serviceVars

TestArgsOf(t) == IF t.args = ABSENT THEN "[]" ELSE t.args

NextPc == IF idx = Len(tests) THEN "aggregate" ELSE "sandbox"

(* Lines 27 and 29: results.push(r) *)
PushFront(rs, r) == <<r>> \o rs
Push(rs, r) == Append(rs, r)

(* Line 26: if (ok) passed += 1 *)
TallyAlways(p, ok) == p + 1
Tally(p, ok) == IF ok THEN p + 1 ELSE p

(* Whether fn.apply at line 15 runs under an execution time limit *)
ApplyHasTimeout == FALSE

(* runInSandbox lines 15-16 and gradeCode lines 25-27 for test idx *)
ApplyEntry ==
    /\ pc = "apply"
    /\ invocations' = invocations + 1
    /\ LET t   == tests[idx]
           o   == code.body[TestArgsOf(t)]
           out == Stringify(host, o.val)
           ok  == out.str = Stringify(host, t.expected).str
       IN  CASE o.kind = "loop" /\ ~ApplyHasTimeout ->
                  /\ pc' = "hung"
                  /\ UNCHANGED <<exc, results, passed, idx>>
             [] o.kind = "loop" /\ ApplyHasTimeout ->
                  /\ exc' = TimeoutErr
                  /\ pc' = "catch"
                  /\ UNCHANGED <<results, passed, idx>>
             [] o.kind = "throw" ->
                  /\ exc' = ThrownValue(o.val)
                  /\ pc' = "catch"
                  /\ UNCHANGED <<results, passed, idx>>
             [] o.kind = "return" /\ out.threw ->
                  /\ exc' = CircularErr
                  /\ pc' = "catch"
                  /\ UNCHANGED <<results, passed, idx>>
             [] OTHER ->
                  /\ passed' = Tally(passed, ok)
                  /\ results' = Push(results, OutputResult(ok, o.val, t.expected))
                  /\ idx' = idx + 1
                  /\ pc' = NextPc
                  /\ UNCHANGED exc
    /\ UNCHANGED <<code, tests, report, host, contexts, observed, vmBroken>>
    /\ UNCHANGED routeVars
    /\ UNCHANGED serviceVars

(* Whether reading e.message at line 29 raises a TypeError *)
MessageReadThrows(e) == e.type \in {"null", "undefined"}

(* The catch clause, lines 28-30 *)
CatchError ==
    /\ pc = "catch"
    /\ IF MessageReadThrows(exc)
       THEN /\ pc' = "threw"
            /\ exc' = MessageReadErr
            /\ UNCHANGED <<results, idx>>
       ELSE /\ results' = Push(results, ErrorResult(Message(exc)))
            /\ idx' = idx + 1
            /\ pc' = NextPc
            /\ exc' = NoExc
    /\ UNCHANGED <<code, tests, passed, report, host, contexts, invocations, observed, vmBroken>>
    /\ UNCHANGED routeVars
    /\ UNCHANGED serviceVars

(* Line 32 *)
percentageUnguarded(h, p, n) ==
    IF n # 0 THEN MathRound(h, p, n)
    ELSE IF h.round = "replaced" THEN 1000 ELSE -1    \* Math.round(NaN) is NaN, written -1
percentage(h, p, n) == IF n # 0 THEN MathRound(h, p, n) ELSE 0

Watch(c, ts, r) ==
    IF [code |-> c, tests |-> ts] \in WatchedCalls
    THEN {[code |-> c, tests |-> ts, report |-> r]} ELSE {}

(* Lines 32-33: aggregate and return *)
Aggregate ==
    /\ pc = "aggregate"
    /\ IF Len(tests) # 0 /\ host.round = "throws"
       THEN /\ pc' = "threw"
            /\ exc' = ReplacedRoundErr
            /\ UNCHANGED <<report, observed>>
       ELSE LET r == [passed |-> passed, total |-> Len(tests),
                      percentage |-> percentage(host, passed, Len(tests)),
                      results |-> results]
            IN  /\ report' = r
                /\ observed' = observed \cup Watch(code, tests, r)
                /\ pc' = "returned"
                /\ UNCHANGED exc
    /\ UNCHANGED <<code, tests, idx, results, passed, host, contexts, invocations, vmBroken>>
    /\ UNCHANGED routeVars
    /\ UNCHANGED serviceVars

(* gradeCode is left: its locals are gone *)
GradeCodeLeave ==
    /\ pc' = "idle"
    /\ code' = NoCode
    /\ tests' = <<>>
    /\ idx' = 1
    /\ results' = <<>>
    /\ passed' = 0
    /\ exc' = NoExc
    /\ report' = NoReport
    /\ contexts' = 0
    /\ invocations' = 0
    /\ UNCHANGED <<host, observed, vmBroken>>

(* The caller has the report or the exception *)
CallEnds ==
    /\ pc \in {"returned", "threw"}
    /\ rpc = "none"
    /\ GradeCodeLeave
    /\ UNCHANGED routeVars
    /\ UNCHANGED serviceVars

Next ==
    \/ GradeCodeCall
    \/ LoadInSandbox
    \/ ApplyEntry
    \/ CatchError
    \/ Aggregate
    \/ CallEnds

Spec == Init /\ [][Next]_vars

----------------------------------------------------------------------------
(* POST /submissions (routes/submissions.js 38-183), one request at a time *)

graderVars == <<pc, code, tests, idx, results, passed, exc, report, host, contexts,
                invocations, observed, vmBroken>>

(* Source text -> what the vm does with it once wrapped (codeRunner line 11) *)
ProgramOf(text) ==
    CASE text = SrcReturnsOne -> Program(TRUE, "halts", {}, "function", ConstBody(Ret("1")))
      [] text = SrcThrowsNull -> Program(TRUE, "halts", {}, "function", ConstBody(Throw("null")))
      [] OTHER                -> Program(TRUE, "halts", {}, "undefined", ConstBody(Ret("1")))

Truthy(v) == v \notin {ABSENT, ""}

(* Line 165: submission.textSubmission || (submission.codeSubmission?.source || '') *)
CodeHanded(doc) ==
    IF Truthy(doc.textSubmission) THEN doc.textSubmission
    ELSE IF Truthy(Read(doc.codeSubmission, "source")) THEN Read(doc.codeSubmission, "source")
    ELSE ""

(* Line 166: assigning to the virtual gradePercentage, which has a getter *)
(* and no setter (Submission.js 202-205): no path of the document changes *)
SetGradePercentage(doc, v) == doc

(* Submission.js 202-205: the getter of the virtual gradePercentage *)
GradePercentage(doc) ==
    IF ~doc.gradeSet \/ doc.grade = 0 THEN [null |-> TRUE, value |-> 0]
    ELSE [null |-> FALSE, value |-> MathRound(host, doc.grade, doc.maxPoints)]

(* Lines 58-114: the request is answered 4xx before anything is created *)
RouteReject ==
    /\ rpc = "none"
    /\ pc = "idle"
    /\ \E r \in Requests, status \in {400, 403, 404} :
         /\ req' = r
         /\ res' = status
    /\ rpc' = "responded"
    /\ submission' = NoSubmission
    /\ stored' = NoSubmission
    /\ result' = NoResult
    /\ assignment' = NoAssignment
    /\ UNCHANGED graderVars
    /\ UNCHANGED serviceVars

(* Lines 45-158: the request passes the checks and Submission.create persists it *)
RouteSubmit ==
    /\ rpc = "none"
    /\ pc = "idle"
    /\ \E r \in Requests :
         /\ req' = r
         /\ submission' = NewSubmission(r)
         /\ stored' = NewSubmission(r)
    /\ rpc' = "created"
    /\ result' = NoResult
    /\ \E prior \in 0..MaxPrior : assignment' = LoadedAssignment(prior)
    /\ res' = 0
    /\ UNCHANGED graderVars
    /\ UNCHANGED serviceVars

(* Lines 162-164: whether the auto-grade block calls gradeCode *)
AutoGradesAnyType(r) == r.meta.entry /\ r.meta.isArray
AutoGrades(r) == r.type = "code_submission" /\ r.meta.entry /\ r.meta.isArray

(* Lines 161-165: the auto-grade block up to the call of gradeCode *)
RouteAutoGrade ==
    /\ rpc = "created"
    /\ IF AutoGrades(req)
       THEN /\ GradeCodeEnter(ProgramOf(CodeHanded(submission)), req.meta.tests)
            /\ rpc' = "grading"
       ELSE /\ rpc' = "appending"
            /\ UNCHANGED graderVars
    /\ UNCHANGED <<req, submission, stored, result, assignment, res>>
    /\ UNCHANGED serviceVars

(* Lines 165-169: gradeCode returned; the document is marked and saved. *)
(* submission.save() either persists the document or rejects, and then  *)
(* catch (_) {} of line 172 drops the rejection                         *)
RouteGraded ==
    /\ rpc = "grading"
    /\ pc = "returned"
    /\ \E saved \in BOOLEAN :
         LET marked == [SetGradePercentage(submission, report.percentage)
                          EXCEPT !.status = "graded", !.gradedAt = "now"]
         IN  /\ submission' = marked
             /\ stored' = IF saved THEN marked ELSE stored
             /\ result' = [returned |-> TRUE, percentage |-> report.percentage,
                           failed |-> ~saved]
    /\ rpc' = "appending"
    /\ GradeCodeLeave
    /\ UNCHANGED <<req, assignment, res>>
    /\ UNCHANGED serviceVars

(* Line 172: gradeCode threw; catch (_) {} drops the exception *)
RouteGradeRethrows ==
    /\ rpc = "grading"
    /\ pc = "threw"
    /\ rpc' = "responded"
    /\ result' = [returned |-> FALSE, percentage |-> 0, failed |-> TRUE]
    /\ res' = 500
    /\ GradeCodeLeave
    /\ UNCHANGED <<req, submission, stored, assignment>>
    /\ UNCHANGED serviceVars
RouteGradeThrew ==
    /\ rpc = "grading"
    /\ pc = "threw"
    /\ rpc' = "appending"
    /\ result' = [returned |-> FALSE, percentage |-> 0, failed |-> TRUE]
    /\ GradeCodeLeave
    /\ UNCHANGED <<req, submission, stored, assignment, res>>
    /\ UNCHANGED serviceVars

(* Lines 174-183: the submission is added to the assignment, 201 is answered *)
RouteRespond ==
    /\ rpc = "appending"
    /\ rpc' = "responded"
    /\ assignment' = [submissions |-> Append(assignment.submissions, "created"),
                      totalSubmissions |-> assignment.totalSubmissions + 1]
    /\ res' = 201
    /\ UNCHANGED <<req, submission, stored, result>>
    /\ UNCHANGED graderVars
    /\ UNCHANGED serviceVars

(* The handler is over (the e-mail of lines 185-193 is best effort): the *)
(* request and its locals are gone                                      *)
RouteEnds ==
    /\ rpc = "responded"
    /\ rpc' = "none"
    /\ req' = NoRequest
    /\ submission' = NoSubmission
    /\ stored' = NoSubmission
    /\ result' = NoResult
    /\ assignment' = NoAssignment
    /\ res' = 0
    /\ UNCHANGED graderVars
    /\ UNCHANGED serviceVars

NextRoute ==
    \/ RouteReject
    \/ RouteSubmit
    \/ RouteAutoGrade
    \/ LoadInSandbox
    \/ ApplyEntry
    \/ CatchError
    \/ Aggregate
    \/ RouteGraded
    \/ RouteGradeThrew
    \/ RouteRespond
    \/ RouteEnds

SpecRoute == Init /\ [][NextRoute]_vars

----------------------------------------------------------------------------
(* POST /submissions handlers running concurrently: every await of the   *)
(* handler is a point where another handler's step can come in between.  *)
(* The auto-grade block (lines 161-172) writes only the status and        *)
(* gradedAt of the created Submission document and is modelled above.     *)

otherThanSubmit == <<graderVars, routeVars, scanVars, limitVars, enrollVars>>

SubmissionsOf(student) == {d \in dbSubmissions : d.student = student}

(* Lines 58-114: a request arrives and is answered 4xx by one of the checks *)
SubmitReject(h) ==
    /\ handlers[h].at = "idle"
    /\ \E st \in Students, status \in {400, 403, 404} :
         handlers' = [handlers EXCEPT ![h] =
                        [@ EXCEPT !.at = "done", !.student = st, !.answer = status]]
    /\ UNCHANGED <<dbSubmissions, dbAssignment>>
    /\ UNCHANGED otherThanSubmit

(* Lines 68-114: a request arrives, the Assignment document is loaded and *)
(* the publication, enrollment and due-date checks pass                   *)
SubmitLoad(h) ==
    /\ handlers[h].at = "idle"
    /\ \E st \in Students :
         handlers' = [handlers EXCEPT ![h] =
                        [@ EXCEPT !.at = "loaded", !.student = st,
                                  !.loaded = dbAssignment.totalSubmissions]]
    /\ UNCHANGED <<dbSubmissions, dbAssignment>>
    /\ UNCHANGED otherThanSubmit

(* Lines 116-122: submissionNumber = existingSubmissions.length + 1 *)
SubmitCount(h) ==
    /\ handlers[h].at = "loaded"
    /\ handlers' = [handlers EXCEPT ![h] =
                      [@ EXCEPT !.at = "counted",
                                !.number = Cardinality(SubmissionsOf(handlers[h].student)) + 1]]
    /\ UNCHANGED <<dbSubmissions, dbAssignment>>
    /\ UNCHANGED otherThanSubmit

(* Whether the unique index (Submission.js 228) refuses the document *)
DuplicateKey(student, number) ==
    \E d \in dbSubmissions : d.student = student /\ d.number = number

(* Line 158: Submission.create; a duplicate key rejects, and the catch of *)
(* lines 194-199 answers 500                                              *)
SubmitCreate(h) ==
    /\ handlers[h].at = "counted"
    /\ IF DuplicateKey(handlers[h].student, handlers[h].number)
       THEN /\ handlers' = [handlers EXCEPT ![h] = [@ EXCEPT !.at = "done", !.answer = 500]]
            /\ UNCHANGED dbSubmissions
       ELSE /\ handlers' = [handlers EXCEPT ![h] = [@ EXCEPT !.at = "created"]]
            /\ dbSubmissions' = dbSubmissions \cup
                                  {[student |-> handlers[h].student,
                                    number |-> handlers[h].number]}
    /\ UNCHANGED dbAssignment
    /\ UNCHANGED otherThanSubmit

(* Line 176 and the save of line 177: the counter is written as the value *)
(* of the loaded document plus one                                        *)
SavedTotal(h) == handlers[h].loaded + 1

(* Lines 174-183: push the id, totalSubmissions += 1 on the loaded document, *)
(* save (the push reaches the database as $push, the counter as $set), 201   *)
SubmitAppend(h) ==
    /\ handlers[h].at = "created"
    /\ dbAssignment' =
         [dbAssignment EXCEPT
            !.submissions = Append(@, [student |-> handlers[h].student,
                                       number |-> handlers[h].number]),
            !.totalSubmissions = SavedTotal(h)]
    /\ handlers' = [handlers EXCEPT ![h] = [@ EXCEPT !.at = "done", !.answer = 201]]
    /\ UNCHANGED dbSubmissions
    /\ UNCHANGED otherThanSubmit

NextSubmit ==
    \E h \in Handlers :
        \/ SubmitReject(h)
        \/ SubmitLoad(h)
        \/ SubmitCount(h)
        \/ SubmitCreate(h)
        \/ SubmitAppend(h)

SpecSubmit == Init /\ [][NextSubmit]_vars

----------------------------------------------------------------------------
(* runDueSoonScan (utils/reminders): every await is a point where another *)
(* scan's step or a POST /submissions can come in between                 *)

otherThanScan == <<graderVars, routeVars, handlers, dbAssignment, limitVars, enrollVars>>

(* Lines 37-68: continue with the next enrolled student, or leave the loop *)
NextStudent(sc) ==
    IF sc.i = Len(Enrolled) THEN [at |-> "done", i |-> sc.i]
    ELSE [at |-> "hasSubmitted", i |-> sc.i + 1]

(* Lines 72-75 and 22-38: the scheduler starts a scan (at startup or at an *)
(* interval tick, whether or not an earlier scan is still running); it      *)
(* finds the assignment and takes the first enrolled student                *)
ScanStart(k) ==
    /\ scans[k].at = "idle"
    /\ scans' = [scans EXCEPT ![k] = [at |-> "hasSubmitted", i |-> 1]]
    /\ UNCHANGED <<notifications, noticedLate, dbSubmissions>>
    /\ UNCHANGED otherThanScan

(* Lines 41-42: Submission.findOne; a student who submitted is skipped *)
ScanHasSubmitted(k) ==
    /\ scans[k].at = "hasSubmitted"
    /\ scans' = [scans EXCEPT ![k] =
                   IF SubmissionsOf(Enrolled[@.i]) # {} THEN NextStudent(@)
                   ELSE [@ EXCEPT !.at = "prefs"]]
    /\ UNCHANGED <<notifications, noticedLate, dbSubmissions>>
    /\ UNCHANGED otherThanScan

(* Lines 45-47: UserPreferences.findOne; a student who muted the category *)
(* or is within quiet hours is skipped                                    *)
ScanPrefs(k) ==
    /\ scans[k].at = "prefs"
    /\ \E muted \in BOOLEAN :
         scans' = [scans EXCEPT ![k] =
                     IF muted THEN NextStudent(@) ELSE [@ EXCEPT !.at = "exists"]]
    /\ UNCHANGED <<notifications, noticedLate, dbSubmissions>>
    /\ UNCHANGED otherThanScan

(* Lines 49-50: Notification.findOne; a student already notified is skipped *)
ScanExists(k) ==
    /\ scans[k].at = "exists"
    /\ scans' = [scans EXCEPT ![k] =
                   IF notifications[Enrolled[@.i]] > 0 THEN NextStudent(@)
                   ELSE [@ EXCEPT !.at = "create"]]
    /\ UNCHANGED <<notifications, noticedLate, dbSubmissions>>
    /\ UNCHANGED otherThanScan

(* Lines 52-67: Notification.create and the socket event *)
ScanCreate(k) ==
    /\ scans[k].at = "create"
    /\ LET st == Enrolled[scans[k].i]
       IN  /\ notifications' = [notifications EXCEPT ![st] = @ + 1]
           /\ noticedLate' = IF SubmissionsOf(st) # {} THEN noticedLate \cup {st}
                              ELSE noticedLate
    /\ scans' = [scans EXCEPT ![k] = NextStudent(@)]
    /\ UNCHANGED dbSubmissions
    /\ UNCHANGED otherThanScan

(* routes/submissions.js line 158, in a request handled meanwhile: the *)
(* first submission of a student is persisted                          *)
SubmissionArrives(st) ==
    /\ SubmissionsOf(st) = {}
    /\ dbSubmissions' = dbSubmissions \cup {[student |-> st, number |-> 1]}
    /\ UNCHANGED <<scans, notifications, noticedLate>>
    /\ UNCHANGED otherThanScan

NextScan ==
    \/ \E k \in Scans :
        \/ ScanStart(k)
        \/ ScanHasSubmitted(k)
        \/ ScanPrefs(k)
        \/ ScanExists(k)
        \/ ScanCreate(k)
    \/ \E st \in Students : SubmissionArrives(st)

SpecScan == Init /\ [][NextScan]_vars

----------------------------------------------------------------------------
(* sensitiveOperationLimit: the middleware is synchronous, one request is *)
(* handled at a time                                                      *)

otherThanLimit == <<graderVars, routeVars, submitVars, scanVars, enrollVars>>

(* Lines 198-199: sensitiveOperationLimit(maxAttempts, windowMs) makes the *)
(* middleware with an empty Map                                            *)
LimiterMade ==
    /\ ~limiter.made
    /\ \E m \in 1..2, w \in 1..2 :
         limiter' = [made |-> TRUE, maxAttempts |-> m, windowMs |-> w]
    /\ UNCHANGED <<clock, attempts, served>>
    /\ UNCHANGED otherThanLimit

(* Time passes *)
ClockTick ==
    /\ clock < MaxClock
    /\ clock' = clock + 1
    /\ UNCHANGED <<limiter, attempts, served>>
    /\ UNCHANGED otherThanLimit

(* Line 212: now > userAttempts.resetTime *)
Expired(a, now) == now > a.resetTime

(* Line 217, negated: userAttempts.count >= maxAttempts answers 429 *)
QuotaLeftOffByOne(count, maxAttempts) == count <= maxAttempts
QuotaLeft(count, maxAttempts) == count < maxAttempts

(* Lines 205-207 and 212-214: the key's entry is (re)created *)
FirstAttempt(now) == [has |-> TRUE, count |-> 1, resetTime |-> now + limiter.windowMs]

(* What the middleware answers to a request of key k at time now *)
Answer(k, now) ==
    IF ~attempts[k].has \/ Expired(attempts[k], now) THEN "next"
    ELSE IF QuotaLeft(attempts[k].count, limiter.maxAttempts) THEN "next"
    ELSE "429"

(* The record of answers: a request begins a window when none has begun or *)
(* the current one (windowMs from its first request) is over               *)
Record(sv, now, answer) ==
    LET begins == sv.windows = 0 \/ now > sv.start + limiter.windowMs
        base   == IF begins
                  THEN [windows |-> sv.windows + 1, start |-> now, passed |-> 0,
                        last |-> "none", fresh |-> TRUE]
                  ELSE [sv EXCEPT !.fresh = FALSE]
    IN  [base EXCEPT !.passed = IF answer = "next" THEN @ + 1 ELSE @,
                     !.last = answer]

(* Lines 201-225: the middleware handles a request of key k *)
LimitRequest(k) ==
    /\ limiter.made
    /\ attempts' =
         [attempts EXCEPT ![k] =
            IF ~@.has \/ Expired(@, clock) THEN FirstAttempt(clock)
            ELSE IF QuotaLeft(@.count, limiter.maxAttempts) THEN [@ EXCEPT !.count = @ + 1]
            ELSE @]
    /\ served' = [served EXCEPT ![k] = Record(@, clock, Answer(k, clock))]
    /\ UNCHANGED <<limiter, clock>>
    /\ UNCHANGED otherThanLimit

NextLimit ==
    \/ LimiterMade
    \/ ClockTick
    \/ \E k \in Keys : LimitRequest(k)

SpecLimit == Init /\ [][NextLimit]_vars

----------------------------------------------------------------------------
(* Enroll and unenroll (routes/courses, models/Course): every await is a *)
(* point where another request's step can come in between                *)

otherThanEnroll == <<graderVars, routeVars, submitVars, scanVars, limitVars>>

(* Lines 829 and 887: Course.findById *)
Loaded(cl, kind, next) ==
    [cl EXCEPT !.at = next, !.kind = kind, !.entries = course.entries, !.v = course.v]

Finished(cl, status) == [cl EXCEPT !.at = "done", !.answer = status]

(* POST /:id/enroll lines 828-851: load the course; a student found in the *)
(* loaded enrolledStudents is answered 400                                 *)
EnrollLoad(c) ==
    /\ callers[c].at = "idle"
    /\ callers' = [callers EXCEPT ![c] =
                     IF course.entries > 0
                     THEN Finished(Loaded(@, "enroll", "done"), 400)
                     ELSE Loaded(@, "enroll", "save")]
    /\ UNCHANGED <<course, userCourses>>
    /\ UNCHANGED otherThanEnroll

(* Line 854 and enrollStudent (176-191): push on the loaded document and *)
(* save; the push reaches the database as $push and increments __v       *)
EnrollSave(c) ==
    /\ callers[c].at = "save"
    /\ callers[c].kind = "enroll"
    /\ course' = [entries |-> course.entries + 1, v |-> course.v + 1]
    /\ callers' = [callers EXCEPT ![c] = [@ EXCEPT !.at = "user"]]
    /\ UNCHANGED userCourses
    /\ UNCHANGED otherThanEnroll

(* Lines 857-865: $push the course to the user's enrolledCourses, answer 200 *)
EnrollUser(c) ==
    /\ callers[c].at = "user"
    /\ callers[c].kind = "enroll"
    /\ userCourses' = userCourses + 1
    /\ callers' = [callers EXCEPT ![c] = Finished(@, 200)]
    /\ UNCHANGED course
    /\ UNCHANGED otherThanEnroll

(* DELETE /:id/enroll lines 886-894: load the course *)
UnenrollLoad(c) ==
    /\ callers[c].at = "idle"
    /\ callers' = [callers EXCEPT ![c] = Loaded(@, "unenroll", "save")]
    /\ UNCHANGED <<course, userCourses>>
    /\ UNCHANGED otherThanEnroll

(* Line 897 and unenrollStudent (194-199): the filtered array replaces     *)
(* enrolledStudents and the document is saved. Nothing is written when the *)
(* filter removed nothing; otherwise the array is written whole, guarded   *)
(* by the __v that was loaded, and a changed __v rejects the save (500)    *)
UnenrollSave(c) ==
    /\ callers[c].at = "save"
    /\ callers[c].kind = "unenroll"
    /\ IF callers[c].entries = 0
       THEN /\ callers' = [callers EXCEPT ![c] = [@ EXCEPT !.at = "user"]]
            /\ UNCHANGED course
       ELSE IF callers[c].v # course.v
       THEN /\ callers' = [callers EXCEPT ![c] = Finished(@, 500)]
            /\ UNCHANGED course
       ELSE /\ callers' = [callers EXCEPT ![c] = [@ EXCEPT !.at = "user"]]
            /\ course' = [entries |-> 0, v |-> course.v + 1]
    /\ UNCHANGED userCourses
    /\ UNCHANGED otherThanEnroll

(* Lines 900-907: $pull the course from the user's enrolledCourses, answer 200 *)
UnenrollUser(c) ==
    /\ callers[c].at = "user"
    /\ callers[c].kind = "unenroll"
    /\ userCourses' = 0
    /\ callers' = [callers EXCEPT ![c] = Finished(@, 200)]
    /\ UNCHANGED course
    /\ UNCHANGED otherThanEnroll

NextEnroll ==
    \E c \in Callers :
        \/ EnrollLoad(c)
        \/ EnrollSave(c)
        \/ EnrollUser(c)
        \/ UnenrollLoad(c)
        \/ UnenrollSave(c)
        \/ UnenrollUser(c)

SpecEnroll == Init /\ [][NextEnroll]_vars

----------------------------------------------------------------------------
(* Properties of the grader *)

CountOk(rs) == Cardinality({j \in 1..Len(rs) : rs[j].ok})

(* The integer nearest to 100 * p / n, halves rounded up, for 0 <= p <= n, n > 0 *)
RoundHalfUp(p, n) ==
    CHOOSE k \in 0..100 : 2 * n * k - n <= 200 * p /\ 200 * p < 2 * n * k + n

CallOver == pc \in {"returned", "threw"}

AllFailedWith(rs, message) ==
    \A j \in 1..Len(rs) : ~rs[j].ok /\ rs[j].error = message

(* C1: every gradeCode call, whatever the code does, hands back a report   *)
(* with one result per test case: results.length = n and total = n.        *)
C1_OneResultPerTest ==
    CallOver =>
        /\ pc = "returned"
        /\ Len(report.results) = Len(tests)
        /\ report.total = Len(tests)

(* C2: gradeCode never throws to its caller; every failure is a result.    *)
C2_NeverThrows == pc # "threw"

(* C3: a test case whose entry point never returns is cut off by the       *)
(* timeout, gets a failing result carrying the timeout error, and the      *)
(* call goes on to the later test cases.                                   *)
C3_LoopingEntryTimesOut ==
    /\ pc # "hung"
    /\ \A j \in 1..Len(results) :
         (code.parses /\ code.top = "halts" /\ code.entryType = "function"
            /\ code.body[TestArgsOf(tests[j])] = Loop)
         => (~results[j].ok /\ results[j].error = TimeoutErr.message)

(* C4: code whose top level never terminates is stopped at load time:      *)
(* gradeCode returns and every result is a failure with the timeout error. *)
C4_TopLevelLoopReturns ==
    (code.parses /\ code.top = "loops") =>
        /\ pc \notin {"threw", "hung"}
        /\ pc = "returned" =>
             /\ Len(report.results) = Len(tests)
             /\ AllFailedWith(report.results, TimeoutErr.message)

(* C5: calls are independent: nothing one call does changes the report     *)
(* of another, so two calls with the same arguments return the same report *)
(* whatever ran in between.                                                *)
C5_CallsIndependent ==
    \A a, b \in observed :
        (a.code = b.code /\ a.tests = b.tests) => a.report = b.report

(* C6: submitted code obtains no host capability and cannot alter the      *)
(* functions the host computes the verdict with.                           *)
C6_SandboxContains ==
    /\ ~host.leaked
    /\ host.stringify = "native"
    /\ host.round = "native"

(* C7: percentage = round(passed / total * 100) when total > 0, else 0.    *)
C7_PercentageIsRounded ==
    pc = "returned" =>
        report.percentage =
            IF report.total > 0 THEN RoundHalfUp(report.passed, report.total) ELSE 0

(* C8: in every report percentage is an integer in [0, 100] and            *)
(* 0 <= passed <= total.                                                   *)
C8_PercentageInRange ==
    pc = "returned" =>
        /\ report.percentage \in 0..100
        /\ 0 <= report.passed
        /\ report.passed <= report.total

(* C9: in every report passed is the number of results whose ok is true.   *)
C9_PassedCountsOk ==
    pc = "returned" => report.passed = CountOk(report.results)

C9_Witness ==
    /\ pc = "returned"
    /\ report.total = 2
    /\ report.passed = 1
    /\ CountOk(report.results) = 1

(* C10: code with a syntax error yields a report with passed = 0,          *)
(* percentage = 0 and n results, all failed; the call is not aborted.      *)
C10_SyntaxErrorReport ==
    (~code.parses /\ pc # "idle") =>
        /\ pc \notin {"threw", "hung"}
        /\ pc = "returned" =>
             /\ report.passed = 0
             /\ report.percentage = 0
             /\ Len(report.results) = Len(tests)
             /\ \A j \in 1..Len(report.results) : ~report.results[j].ok

(* The result a test case t gets on its own from program c with host h:  *)
(* what runInSandbox raises or returns for it, compared as line 25 does.  *)
ResultFor(h, broken, c, t) ==
    LET o   == c.body[TestArgsOf(t)]
        out == Stringify(h, o.val)
    IN  IF broken THEN ErrorResult(SandboxUnavailableErr.message)
        ELSE IF LoadError(c) # NoExc THEN ErrorResult(LoadError(c).message)
        ELSE IF o.kind = "throw" THEN ErrorResult(Message(ThrownValue(o.val)))
        ELSE IF out.threw THEN ErrorResult(CircularErr.message)
        ELSE OutputResult(out.str = Stringify(h, t.expected).str, o.val, t.expected)

Loads(c) == c.parses /\ c.top = "halts" /\ c.entryType = "function"

(* JSON.stringify of the host as shipped *)
CanonicalJSON(v) == Stringify(PristineHost, v).str

(* C11: code that compiles but defines no callable entry is handled like a *)
(* compilation error: every test case gets a failing result carrying the   *)
(* captured error, passed = 0, and nothing is thrown.                      *)
C11_MissingEntryReport ==
    (code.parses /\ code.top = "halts" /\ code.entryType # "function") =>
        /\ pc \notin {"threw", "hung"}
        /\ pc = "returned" =>
             /\ report.passed = 0
             /\ Len(report.results) = Len(tests)
             /\ \A j \in 1..Len(report.results) :
                  ~report.results[j].ok /\ report.results[j].error # ABSENT

(* C12: a failure in one test case never aborts the others: a throwing     *)
(* invocation becomes that test's failing result and every other test gets *)
(* the result it gets on its own.                                          *)
C12_FailureIsolated ==
    /\ ~(pc = "threw" /\ exc = MessageReadErr)
    /\ (pc = "returned" /\ Loads(code)) =>
         \A j \in 1..Len(report.results) :
             report.results[j] = ResultFor(host, vmBroken, code, tests[j])

(* C13: test cases are evaluated in the order supplied and results keeps   *)
(* that order: results[i] is the result of tests[i], and test i has its    *)
(* result before test i+1 is loaded or invoked.                            *)
C13_ResultsInOrder ==
    /\ Len(results) <= Len(tests)
    /\ \A j \in 1..Len(results) :
         results[j] = ResultFor(host, vmBroken, code, tests[j])
    /\ pc \in {"sandbox", "apply", "catch", "hung"} =>
         /\ Len(results) = idx - 1
         /\ invocations <= idx
         /\ pc \in {"sandbox", "apply"} => invocations <= idx - 1

C13_Witness ==
    /\ pc = "returned"
    /\ Len(report.results) = 2
    /\ report.results[1].ok
    /\ ~report.results[2].ok
    /\ report.results[2].error = "boom"

(* C14: a test whose expected value is what the entry point returns gets   *)
(* ok = true, and ok is true exactly when the JSON serializations of the   *)
(* returned value and of expected are equal.                               *)
C14_OkIffSerializationsEqual ==
    \A j \in 1..Len(results) :
        /\ (~vmBroken /\ Loads(code)
              /\ code.body[TestArgsOf(tests[j])] = Ret(tests[j].expected))
           => results[j].ok
        /\ results[j].output # ABSENT =>
             (results[j].ok <=>
                CanonicalJSON(results[j].output) = CanonicalJSON(results[j].expected))

(* C15: a normal return of a value other than expected is no error: the    *)
(* result has ok = false and carries the output; every result carries      *)
(* either an output or an error, and one carrying an error has ok = false. *)
C15_MismatchIsNotAnError ==
    \A j \in 1..Len(results) :
        /\ (~vmBroken /\ Loads(code)
              /\ code.body[TestArgsOf(tests[j])].kind = "return"
              /\ code.body[TestArgsOf(tests[j])].val # tests[j].expected)
           => /\ ~results[j].ok
              /\ results[j].output = code.body[TestArgsOf(tests[j])].val
              /\ results[j].error = ABSENT
        /\ (results[j].output = ABSENT) # (results[j].error = ABSENT)
        /\ results[j].error # ABSENT => ~results[j].ok

(* C16: calling gradeCode twice with identical arguments and a pure entry  *)
(* point yields identical reports, whatever calls ran in between.          *)
C16_RepeatedCallSameReport ==
    \A w \in WatchedCalls :
        Cardinality({o \in observed : o.code = w.code /\ o.tests = w.tests}) <= 1

(* C17: with no tests gradeCode returns passed = 0, total = 0,             *)
(* percentage = 0, results = [] for any code, and compiles and runs        *)
(* nothing.                                                                *)
C17_NoTestsZeroReport ==
    Len(tests) = 0 =>
        /\ pc \in {"idle", "aggregate", "returned"}
        /\ contexts = 0
        /\ invocations = 0
        /\ pc = "returned" =>
             report = [passed |-> 0, total |-> 0, percentage |-> 0, results |-> <<>>]

C17_Witness ==
    /\ pc = "returned"
    /\ Len(tests) = 0
    /\ code.top = "loops"
    /\ host.round = "replaced"

(* C18: a failure of the grading environment is surfaced to the caller as  *)
(* an error, never as an ordinary report whose test cases failed.          *)
C18_EnvironmentFailureSurfaced ==
    (vmBroken /\ Len(tests) > 0) => pc # "returned"

----------------------------------------------------------------------------
(* What C4, C7, C8 and C10 leave standing: while Math.round is the host's  *)
(* native function the reports are as those claims describe.               *)

RoundIsNative == host.round = "native"

PercentageIsRoundedWhileRoundNative ==
    (pc = "returned" /\ RoundIsNative) =>
        /\ report.percentage =
             IF report.total > 0 THEN RoundHalfUp(report.passed, report.total) ELSE 0
        /\ report.percentage \in 0..100

PassedWithinTotal ==
    pc = "returned" => (0 <= report.passed /\ report.passed <= report.total)

LoadFailureReportWhileRoundNative ==
    (pc = "returned" /\ RoundIsNative /\ ~vmBroken /\ LoadError(code) # NoExc) =>
        /\ report.passed = 0
        /\ report.percentage = 0
        /\ Len(report.results) = Len(tests)
        /\ AllFailedWith(report.results, LoadError(code).message)

----------------------------------------------------------------------------
(* POST /submissions *)

(* The source text of the structured payload of a request, whichever key holds it *)
PayloadSource(payload) ==
    IF Truthy(Read(payload, "code")) THEN payload.code
    ELSE IF Truthy(Read(payload, "source")) THEN payload.source
    ELSE ""

(* The code a request submits: its free text, else the source of its payload *)
SubmittedCode(r) ==
    IF Truthy(r.textSubmission) THEN r.textSubmission ELSE PayloadSource(r.codeSubmission)

(* C19: once POST /submissions has auto-graded a submission (gradeCode returned  *)
(* a report) and answered, the persisted record has status graded, gradedAt set, *)
(* and reading gradePercentage back from it yields the report's percentage.      *)
C19_GradePersisted ==
    (rpc = "responded" /\ result.returned /\ ~result.failed) =>
        /\ stored.status = "graded"
        /\ stored.gradedAt # ABSENT
        /\ GradePercentage(stored) = [null |-> FALSE, value |-> result.percentage]

(* C20: the code POST /submissions hands to gradeCode is the free text of the  *)
(* request when it is non-empty and otherwise the source text of the payload   *)
(* the student sent; a payload-only submission is never graded on the empty    *)
(* string.                                                                     *)
C20_GradedOnSubmittedCode ==
    rpc = "grading" =>
        /\ CodeHanded(submission) = SubmittedCode(req)
        /\ code = ProgramOf(SubmittedCode(req))

----------------------------------------------------------------------------
(* gradeCode: contexts and invocations per call *)

C22_InvokedOncePerTest ==
    CallOver =>
        IF ~vmBroken /\ Loads(code) THEN invocations = Len(tests) ELSE invocations = 0

----------------------------------------------------------------------------
(* POST /submissions: when grading happens and what a grading failure does *)

(* The conditions the claim names: type code_submission, instructions that *)
(* parse with a truthy entry and an array tests                            *)
GradingConfigured(r) == r.type = "code_submission" /\ r.meta.entry /\ r.meta.isArray

(* C23: POST /submissions calls gradeCode only for a code_submission        *)
(* assignment whose instructions hold a truthy entry and an array tests; in *)
(* every other case gradeCode is not called and the created submission      *)
(* keeps status submitted with no gradedAt.                                 *)
C23_GradesOnlyWhenConfigured ==
    /\ rpc = "grading" => GradingConfigured(req)
    /\ pc # "idle" => rpc = "grading"
    /\ (rpc \in {"created", "appending", "responded"} /\ res \in {0, 201}
          /\ ~GradingConfigured(req)) =>
         /\ stored.exists
         /\ stored.status = "submitted"
         /\ stored.gradedAt = ABSENT
         /\ result = NoResult
         /\ contexts = 0

C23_Witness ==
    /\ rpc = "responded" /\ res = 201
    /\ req.type = "essay" /\ req.meta.entry /\ req.meta.isArray /\ Len(req.meta.tests) > 0
    /\ stored.status = "submitted"

----------------------------------------------------------------------------
(* Concurrent POST /submissions *)

AllAnswered == \A h \in Handlers : handlers[h].at = "done"

Answered201 == {h \in Handlers : handlers[h].answer = 201}

(* C25: once all concurrent requests for the assignment have completed,    *)
(* totalSubmissions equals the length of assignment.submissions and equals *)
(* the number of requests answered 201.                                    *)
C25_TotalMatchesSubmissions ==
    AllAnswered =>
        /\ dbAssignment.totalSubmissions = Len(dbAssignment.submissions)
        /\ dbAssignment.totalSubmissions = Cardinality(Answered201)

(* C26: the persisted submissions of a student carry the numbers 1..k, each *)
(* once, and every request that passed the checks ends with a persisted     *)
(* submission and a 201 answer.                                             *)
C26_NumbersDistinctAndNoneRefused ==
    /\ \A st \in Students :
         {d.number : d \in SubmissionsOf(st)} = 1..Cardinality(SubmissionsOf(st))
    /\ \A h \in Handlers :
         (handlers[h].at = "done" /\ handlers[h].answer \notin {400, 403, 404}) =>
             /\ handlers[h].answer = 201
             /\ DuplicateKey(handlers[h].student, handlers[h].number)

(* C27: a student never has more persisted submissions for the assignment *)
(* than its maxSubmissions.                                               *)
C27_AtMostMaxSubmissions ==
    \A st \in Students : Cardinality(SubmissionsOf(st)) <= dbAssignment.maxSubmissions

----------------------------------------------------------------------------
(* Due-soon reminders *)

(* C28: over any number of scans, overlapping or not, a student gets at most *)
(* one 'Assignment due soon' notification for the assignment, and none is    *)
(* created for a student who has a submission when it is created.            *)
C28_OneReminderAndNoneAfterSubmission ==
    /\ \A st \in Students : notifications[st] <= 1
    /\ noticedLate = {}

----------------------------------------------------------------------------
(* Rate limiter *)

----------------------------------------------------------------------------
(* Enrollment *)

AllCallersDone == \A c \in Callers : callers[c].at = "done"

(* C30: after any interleaving of enroll and unenroll requests, the student *)
(* appears at most once in course.enrolledStudents, and the course is in    *)
(* the student's enrolledCourses exactly when the student is in             *)
(* course.enrolledStudents.                                                 *)
C30_EnrolledOnceAndInBoth ==
    AllCallersDone =>
        /\ course.entries <= 1
        /\ (userCourses > 0) <=> (course.entries > 0)

====
